---- MODULE Spec2Model ----
(***************************************************************************)
(* A model of ImageCompressor (src/image_compressor.py): one call of       *)
(* compress(source_path, target_path) as a sequence of steps, with the     *)
(* helpers it calls as operators.  Pillow and the file system are the      *)
(* environment: what they answer is drawn in Init (the file found at the   *)
(* source path, whether an encode, a copy or a quantization fails).        *)
(*                                                                         *)
(* Python floats are IEEE doubles.  The only float arithmetic that decides *)
(* anything is int(x * (m / d)) in the two resize computations and the     *)
(* threshold tests of the difference statistics; both are computed here    *)
(* exactly, in integers (see scaled_int and should_accept_png8).           *)
(***************************************************************************)
EXTENDS Integers, Sequences, FiniteSets, TLC

(***************************************************************************)
(* Bounds of the model.                                                    *)
(***************************************************************************)
\* widest and tallest image of the resize scenarios
MaxWidth == 49
MaxHeight == 13
\* largest configured max_photo_width / max_photo_height of the resize scenarios
MaxLimit == 4
\* widest image pair given to the acceptance check (one more than max_sample)
MaxCompareWidth == 257

(***************************************************************************)
(* Program constants.                                                      *)
(***************************************************************************)
QualityMin == 0
QualityMax == 100
DefaultQuality == 85
DefaultMaxSide == 2000
JpegCap == 75
JpegFloor == 92
WebpCap == 70
WebpFloor == 90
PngLevelFast == 6
PngLevelMax == 9
PngKeepQuality == 90
PngLosslessQuality == 70
PaletteMin == 16
PaletteMax == 256
max_sample == 256
MaeLimit == 6
HighPctLimit == 2
HighDiffLevel == 24
MaeSentinel == 999
HighPctSentinel == 100
White == 255
\* Image.NONE
DitherNone == 0
Opaque == 255

(***************************************************************************)
(* Integer helpers.                                                        *)
(***************************************************************************)
Min(a, b) == IF a <= b THEN a ELSE b
Max(a, b) == IF a >= b THEN a ELSE b
Abs(a) == IF a < 0 THEN -a ELSE a

RECURSIVE Pow2(_)
Pow2(n) == IF n <= 0 THEN 1 ELSE 2 * Pow2(n - 1)

\* b with 2^b <= i < 2^(b+1), for i >= 1
RECURSIVE ILog2(_)
ILog2(i) == IF i < 2 THEN 0 ELSE 1 + ILog2(i \div 2)

\* the least j with m * 2^j >= d, for 1 <= m
RECURSIVE BinaryShift(_, _)
BinaryShift(m, d) == IF m >= d THEN 0 ELSE 1 + BinaryShift(2 * m, d)

\* (m * 2^k) mod d without forming m * 2^k
RECURSIVE MulPow2Mod(_, _, _)
MulPow2Mod(m, k, d) ==
    IF k = 0 THEN m % d ELSE (2 * MulPow2Mod(m, k - 1, d)) % d

(***************************************************************************)
(* The double m / d for integers 1 <= m < d is N / 2^k, with               *)
(* k = 52 + BinaryShift(m, d) (a double keeps 52 bits below the leading    *)
(* one) and N the integer nearest m * 2^k / d (ties  *)
(* to even).  QuotientError(m, d) is E = d * N - m * 2^k, so that          *)
(* d * (m / d) is m + E / 2^k when computed exactly.                       *)
(***************************************************************************)
QuotientError(m, d) ==
    LET k == 52 + BinaryShift(m, d)
        r2 == MulPow2Mod(m, k, 2 * d)
        rem == r2 % d
        qOdd == r2 >= d
    IN  IF 2 * rem < d \/ (2 * rem = d /\ ~qOdd) THEN 0 - rem ELSE d - rem

(***************************************************************************)
(* int(x * (m / d)) in double arithmetic, for integers x >= 1 and          *)
(* 1 <= m < d.  The exact product is x*m/d + x*E/(d*2^k).  When d does not *)
(* divide x*m the perturbation cannot reach an integer and the result is   *)
(* the exact floor.  When it does, the product is I + x*E/(d*2^k) with     *)
(* I = x*m/d: rounding to the nearest double gives I unless the product    *)
(* lies more than half a unit in the last place below I, and then the      *)
(* truncation gives I - 1.                                                 *)
(***************************************************************************)
scaled_int(x, m, d) ==
    IF (x * m) % d # 0
    THEN (x * m) \div d
    ELSE LET I == (x * m) \div d
             E == QuotientError(m, d)
             b == ILog2(I)
             j == BinaryShift(m, d)
             halfUlpExp == IF Pow2(b) = I THEN b + j - 1 ELSE b + j
         IN  IF E >= 0 THEN I
             ELSE IF 2 * x * (0 - E) > d * Pow2(halfUlpExp) THEN I - 1 ELSE I

(***************************************************************************)
(* Paths.  A path is the string the caller gave and what Path.resolve()    *)
(* makes of it on this file system (or that resolve() raises).  Strings    *)
(* are sequences of one-character strings so that the substring and prefix *)
(* tests of _normalize_path are computed.                                  *)
(***************************************************************************)
None == << >>

StartsWith(s, prefix) ==
    /\ Len(s) >= Len(prefix)
    /\ SubSeq(s, 1, Len(prefix)) = prefix

Contains(s, sub) ==
    \E i \in 1..(Len(s) + 1 - Len(sub)) : SubSeq(s, i, i + Len(sub) - 1) = sub

MkPath(given, resolved, resolves) ==
    [given |-> given, resolved |-> resolved, resolves |-> resolves]

WorkDir == <<"/", "w">>
PathPlain == MkPath(<<"/", "w", "/", "a">>, <<"/", "w", "/", "a">>, TRUE)
PathEmpty == MkPath(<< >>, WorkDir, TRUE)
PathRelative == MkPath(<<"a">>, <<"/", "w", "/", "a">>, TRUE)
PathDotDot == MkPath(<<"/", "w", "/", "a", ".", ".", "b">>,
                     <<"/", "w", "/", "a", ".", ".", "b">>, TRUE)
PathUnc == MkPath(<<"\\", "\\", "s", "\\", "a">>, <<"\\", "\\", "s", "\\", "a">>, TRUE)
PathUnresolvable == MkPath(<<"a", "?">>, << >>, FALSE)

\* _normalize_path: None, or the resolved string
normalize_path(path) ==
    IF path.given = << >> THEN None
    ELSE IF ~path.resolves THEN None
    ELSE IF Contains(path.resolved, <<".", ".">>) \/ StartsWith(path.resolved, <<"\\", "\\">>)
         THEN None
    ELSE path.resolved

(***************************************************************************)
(* Configuration.  A raw option value is an integer or something int()     *)
(* rejects; presets are the three strings of the source, written           *)
(* "Custom" (自定义), "CompressionFirst" (压缩优先), "ClarityFirst" (清晰优先).     *)
(***************************************************************************)
RawInt(n) == [is_int |-> TRUE, n |-> n]
RawJunk == [is_int |-> FALSE, n |-> 0]

clamp_int(value, min_value, max_value) ==
    LET value_int == IF value.is_int THEN value.n ELSE min_value
    IN  Max(min_value, Min(max_value, value_int))

Presets == {"Custom", "CompressionFirst", "ClarityFirst"}

get_image_preset(raw) == IF raw \notin Presets THEN "Custom" ELSE raw

(***************************************************************************)
(* Images.  px is the raster as Pillow's convert('RGBA') shows it, one     *)
(* <<r, g, b, a>> per pixel in row order; transp says that img.info holds  *)
(* a 'transparency' entry.  Mode "other" stands for the modes the PNG,      *)
(* WEBP and GIF encoders refuse (CMYK, F, ...); env.convert_fails says     *)
(* that Pillow cannot convert the mode either (F).                         *)
(***************************************************************************)
MkImage(mode, transp, w, h, px) ==
    [mode |-> mode, transp |-> transp, w |-> w, h |-> h, px |-> px]

NoImage == MkImage("none", FALSE, 0, 0, << >>)

Uniform(mode, w, h, p) == MkImage(mode, FALSE, w, h, [i \in 1..(w * h) |-> p])

Rgb(p) == <<p[1], p[2], p[3]>>

\* img.convert('RGBA'): the alpha of the view becomes a channel
convert_rgba(img) == MkImage("RGBA", FALSE, img.w, img.h, img.px)

\* img.convert('RGB'): alpha is dropped
convert_rgb(img) ==
    MkImage("RGB", img.transp /\ img.mode \notin {"RGBA", "LA"}, img.w, img.h,
            [i \in 1..Len(img.px) |-> <<img.px[i][1], img.px[i][2], img.px[i][3], Opaque>>])

\* one channel of "source over opaque white", rounded to nearest
OverWhite(c, a) == (c * a + White * (Opaque - a) + 127) \div Opaque

\* Image.alpha_composite(white, rgba), and paste(rgba, mask=alpha) onto white
composite_white(img, mode) ==
    MkImage(mode, FALSE, img.w, img.h,
            [i \in 1..Len(img.px) |->
                <<OverWhite(img.px[i][1], img.px[i][4]),
                  OverWhite(img.px[i][2], img.px[i][4]),
                  OverWhite(img.px[i][3], img.px[i][4]), Opaque>>])

\* alpha.getextrema()
AlphaMin(img) == CHOOSE a \in {img.px[i][4] : i \in 1..Len(img.px)} :
                    \A i \in 1..Len(img.px) : a <= img.px[i][4]
AlphaMax(img) == CHOOSE a \in {img.px[i][4] : i \in 1..Len(img.px)} :
                    \A i \in 1..Len(img.px) : a >= img.px[i][4]

HasAlphaHandling(img) ==
    \/ img.mode \in {"RGBA", "LA"}
    \/ (img.mode = "P" /\ img.transp)

convert_for_jpeg(img) ==
    IF img.mode = "RGB" THEN img
    ELSE IF HasAlphaHandling(img) THEN composite_white(convert_rgba(img), "RGB")
    ELSE convert_rgb(img)

\* _convert_for_png24 that drops the alpha channel without compositing
convert_for_png24_drop_alpha(img, extrema_fails) ==
    IF img.mode = "RGB" THEN img ELSE convert_rgb(img)

\* extrema_fails: getchannel/getextrema raised, and the range is taken as (0, 255)
convert_for_png24(img, extrema_fails) ==
    IF img.mode = "RGB" THEN img
    ELSE IF HasAlphaHandling(img) \/ img.transp
    THEN LET rgba == convert_rgba(img)
             alpha_min == IF extrema_fails THEN 0 ELSE AlphaMin(rgba)
             alpha_max == IF extrema_fails THEN Opaque ELSE AlphaMax(rgba)
         IN  IF alpha_min = Opaque /\ alpha_max = Opaque
             THEN convert_rgb(rgba)
             ELSE convert_rgb(composite_white(rgba, "RGBA"))
    ELSE convert_rgb(img)

(***************************************************************************)
(* _resize_if_needed.  ratio = min(max_width / width, max_height / height) *)
(* is the double m / d of the pair with the smaller quotient (the doubles  *)
(* compare as the fractions do); the new sides are int(side * ratio).      *)
(***************************************************************************)
WidthLimits(width, height, max_width, max_height) == max_width * height <= max_height * width

new_size(width, height, max_width, max_height) ==
    LET m == IF WidthLimits(width, height, max_width, max_height) THEN max_width ELSE max_height
        d == IF WidthLimits(width, height, max_width, max_height) THEN width ELSE height
    IN  <<scaled_int(width, m, d), scaled_int(height, m, d)>>

\* the size test with >= for >
needs_resize_inclusive(width, height, max_width, max_height) ==
    width >= max_width \/ height >= max_height

needs_resize(width, height, max_width, max_height) ==
    width > max_width \/ height > max_height

\* img.resize(size, LANCZOS) of an image of one colour: every normalized
\* filter gives that colour back.  The scenarios resize such images only.
resize(img, size) ==
    MkImage(img.mode, img.transp, size[1], size[2],
            [i \in 1..(size[1] * size[2]) |-> img.px[1]])

Call(op, a, b, c) == [op |-> op, a |-> a, b |-> b, c |-> c]

\* the image _resize_if_needed returns and the Pillow calls it made
resize_if_needed(img, max_width, max_height) ==
    IF needs_resize(img.w, img.h, max_width, max_height)
    THEN LET size == new_size(img.w, img.h, max_width, max_height)
         IN  [img |-> resize(img, size),
              calls |-> <<Call("resize", size[1], size[2], "LANCZOS")>>]
    ELSE [img |-> img, calls |-> << >>]

(***************************************************************************)
(* Palette quantization.  Pillow's quantizers are the environment: the     *)
(* palette image they return is the input with every colour channel moved  *)
(* to the nearest multiple of a spacing the environment chooses (spacing 1 *)
(* is a palette that holds every colour of the image).                     *)
(***************************************************************************)
Posterize(c, step) == Min(White, ((c + (step \div 2)) \div step) * step)

quantize(img, step) ==
    MkImage("P", FALSE, img.w, img.h,
            [i \in 1..Len(img.px) |->
                <<Posterize(img.px[i][1], step), Posterize(img.px[i][2], step),
                  Posterize(img.px[i][3], step), img.px[i][4]>>])

\* quant: [outcome, step, convert_fails]; outcome is "adaptive" (the first
\* method answers), "fallback" (it raises and the second answers) or "fail"
maybe_quantize_png(img, colors, dither_mode, quant) ==
    IF img.mode = "P" THEN [img |-> img, calls |-> << >>]
    ELSE IF img.mode \notin {"RGB", "RGBA"} /\ img.mode = "other" /\ quant.convert_fails
    THEN [img |-> img, calls |-> << >>]
    ELSE LET img1 == IF img.mode \notin {"RGB", "RGBA"} THEN convert_rgba(img) ELSE img
             method == IF img1.mode = "RGB" THEN "MEDIANCUT" ELSE "FASTOCTREE"
             first == Call("quantize", colors, dither_mode, "ADAPTIVE")
             second == Call("quantize", colors, dither_mode, method)
         IN  IF quant.outcome = "adaptive"
             THEN [img |-> quantize(img1, quant.step), calls |-> <<first>>]
             ELSE IF quant.outcome = "fallback"
             THEN [img |-> quantize(img1, quant.step), calls |-> <<first, second>>]
             ELSE [img |-> img1, calls |-> <<first, second>>]

(***************************************************************************)
(* Encoders.  A file is what was written: the encoder, the image handed to *)
(* it and its parameters; SourceFile is the bytes found at the source path.*)
(***************************************************************************)
MkFile(enc, image, quality, level, flags) ==
    [enc |-> enc, img |-> image, quality |-> quality, level |-> level, flags |-> flags]

Absent == MkFile("absent", NoImage, -1, -1, {})
Partial == MkFile("partial", NoImage, -1, -1, {})
SourceFile(e) == MkFile("source", e.src_image, -1, -1, {e.src_kind})

jpeg_quality(photo_quality, image_preset) ==
    IF image_preset = "CompressionFirst" THEN Min(photo_quality, JpegCap)
    ELSE IF image_preset = "ClarityFirst" THEN Max(photo_quality, JpegFloor)
    ELSE photo_quality

\* _save_webp with the thresholds of _save_jpeg
webp_quality_as_jpeg(photo_quality, image_preset) ==
    jpeg_quality(photo_quality, image_preset)

webp_quality(photo_quality, image_preset) ==
    IF image_preset = "CompressionFirst" THEN Min(photo_quality, WebpCap)
    ELSE IF image_preset = "ClarityFirst" THEN Max(photo_quality, WebpFloor)
    ELSE photo_quality

\* what an encoder call does: [raises, file, calls]
Saved(file, calls) == [raises |-> "none", file |-> file, calls |-> calls]
Raised(exc, calls) == [raises |-> exc, file |-> Absent, calls |-> calls]

save_jpeg(img, photo_quality, image_preset, e) ==
    IF img.mode = "other" /\ e.convert_fails THEN Raised("ValueError", << >>)
    ELSE Saved(MkFile("JPEG", convert_for_jpeg(img), jpeg_quality(photo_quality, image_preset),
                      -1, {"optimize", "progressive"}), << >>)

save_webp(img, photo_quality, image_preset, e) ==
    IF img.mode = "other" THEN Raised("OSError", << >>)
    ELSE Saved(MkFile("WEBP", img, webp_quality(photo_quality, image_preset), -1, {"method6"}),
               << >>)

\* the palette size with int() in place of int(round())
png_colors_truncating(photo_quality) ==
    Max(PaletteMin,
        Min(PaletteMax,
            PaletteMin + (((PaletteMax - PaletteMin) * photo_quality) \div PngLosslessQuality)))

\* colors = max(16, min(256, int(round(16 + (q / 70.0) * 240)))): 240 * q / 70
\* is 24 * q / 7, never halfway between two integers, so round() is the nearest
png_colors(photo_quality) ==
    Max(PaletteMin,
        Min(PaletteMax,
            PaletteMin + ((2 * (PaletteMax - PaletteMin) * photo_quality + PngLosslessQuality)
                            \div (2 * PngLosslessQuality))))

\* _save_png branching on quality before preset
png_plan_quality_first(img, photo_quality, image_preset, e) ==
    IF photo_quality < PngLosslessQuality
    THEN LET q == maybe_quantize_png(img, png_colors(photo_quality), DitherNone,
                    [outcome |-> e.quant_outcome, step |-> e.quant_step,
                     convert_fails |-> e.convert_fails])
         IN  [raises |-> "none", level |-> PngLevelMax, img |-> q.img, calls |-> q.calls]
    ELSE IF image_preset = "CompressionFirst"
    THEN IF img.mode = "other" /\ e.convert_fails
         THEN [raises |-> "ValueError", level |-> PngLevelMax, img |-> img, calls |-> << >>]
         ELSE [raises |-> "none", level |-> PngLevelMax,
               img |-> convert_for_png24(img, e.extrema_fails), calls |-> << >>]
    ELSE IF image_preset = "ClarityFirst" \/ photo_quality >= PngKeepQuality
    THEN [raises |-> "none", level |-> PngLevelFast, img |-> img, calls |-> << >>]
    ELSE [raises |-> "none", level |-> PngLevelMax, img |-> img, calls |-> << >>]

\* the image and compress level _save_png encodes with, and its Pillow calls
png_plan(img, photo_quality, image_preset, e) ==
    IF image_preset = "ClarityFirst"
    THEN [raises |-> "none", level |-> PngLevelFast, img |-> img, calls |-> << >>]
    ELSE IF image_preset = "CompressionFirst"
    THEN IF img.mode = "other" /\ e.convert_fails
         THEN [raises |-> "ValueError", level |-> PngLevelMax, img |-> img, calls |-> << >>]
         ELSE [raises |-> "none", level |-> PngLevelMax,
               img |-> convert_for_png24(img, e.extrema_fails), calls |-> << >>]
    ELSE IF photo_quality >= PngKeepQuality
    THEN [raises |-> "none", level |-> PngLevelFast, img |-> img, calls |-> << >>]
    ELSE IF photo_quality >= PngLosslessQuality
    THEN [raises |-> "none", level |-> PngLevelMax, img |-> img, calls |-> << >>]
    ELSE LET q == maybe_quantize_png(img, png_colors(photo_quality), DitherNone,
                    [outcome |-> e.quant_outcome, step |-> e.quant_step,
                     convert_fails |-> e.convert_fails])
         IN  [raises |-> "none", level |-> PngLevelMax, img |-> q.img, calls |-> q.calls]

save_png(img, photo_quality, image_preset, e) ==
    LET plan == png_plan(img, photo_quality, image_preset, e)
    IN  IF plan.raises # "none" THEN Raised(plan.raises, plan.calls)
        ELSE IF plan.img.mode = "other" THEN Raised("OSError", plan.calls)
        ELSE Saved(MkFile("PNG", plan.img, -1, plan.level, {"optimize"}), plan.calls)

\* extensions Pillow knows besides the three the dispatch names
OtherKnownExts == {".gif"}

save_image(img, target_ext, photo_quality, image_preset, e) ==
    IF target_ext \in {".jpg", ".jpeg"} THEN save_jpeg(img, photo_quality, image_preset, e)
    ELSE IF target_ext = ".png" THEN save_png(img, photo_quality, image_preset, e)
    ELSE IF target_ext = ".webp" THEN save_webp(img, photo_quality, image_preset, e)
    ELSE IF target_ext \notin OtherKnownExts THEN Raised("ValueError", << >>)
    ELSE IF img.mode = "other" THEN Raised("OSError", << >>)
    ELSE Saved(MkFile("GIF", img, -1, -1, {"optimize"}), << >>)

\* os.path.splitext(target_path)[1].lower()
Lower(ext) == IF ext = ".JPG" THEN ".jpg" ELSE IF ext = ".PNG" THEN ".png" ELSE ext

\* config.get(key, default)
config_get(e, key, value, default) == IF key \in e.cfg_keys THEN value ELSE default

(***************************************************************************)
(* The acceptance check of a palette image against the image it was made   *)
(* from: _prepare_compare_images, _compute_image_diff_stats and            *)
(* _should_accept_png8.  Pixel (x, y), both from 0, is px[y * w + x + 1].  *)
(***************************************************************************)
PixelAt(img, x, y) == img.px[y * img.w + x + 1]

\* resize(size, NEAREST): each pixel is the input pixel under its centre
resize_nearest(img, w, h) ==
    MkImage(img.mode, img.transp, w, h,
            [i \in 1..(w * h) |->
                PixelAt(img, ((2 * ((i - 1) % w) + 1) * img.w) \div (2 * w),
                             ((2 * ((i - 1) \div w) + 1) * img.h) \div (2 * h))])

(***************************************************************************)
(* resize(size, BILINEAR) to a smaller size, one axis at a time.  Pillow   *)
(* weighs input position i for output position o by the triangle filter   *)
(* stretched by scale = n_in / n_out around the centre (o + 0.5) * scale;  *)
(* in units of 1 / (2 * n_in) the weight is                                *)
(*     2 * n_in - |(2i + 1) * n_out - (2o + 1) * n_in|                     *)
(* over the window [FirstTap, LastTap), and the output is the weighted     *)
(* mean rounded to nearest.  The images resized here are opaque, for which *)
(* Pillow's alpha premultiplication changes nothing.                       *)
(***************************************************************************)
FirstTap(o, n_in, n_out) ==
    Max(0, ((2 * o + 1) * n_in - 2 * n_in + n_out) \div (2 * n_out))
LastTap(o, n_in, n_out) ==
    Min(n_in, ((2 * o + 1) * n_in + 2 * n_in + n_out) \div (2 * n_out))
TapWeight(i, o, n_in, n_out) ==
    Max(0, 2 * n_in - Abs((2 * i + 1) * n_out - (2 * o + 1) * n_in))

\* sum over i in [lo, hi) of weight(i) * sample[i]; sample is from index 0
RECURSIVE WeightedSum(_, _, _, _, _, _)
WeightedSum(sample, lo, hi, o, n_in, n_out) ==
    IF lo >= hi THEN 0
    ELSE TapWeight(lo, o, n_in, n_out) * sample[lo]
         + WeightedSum(sample, lo + 1, hi, o, n_in, n_out)

RECURSIVE WeightSum(_, _, _, _, _)
WeightSum(lo, hi, o, n_in, n_out) ==
    IF lo >= hi THEN 0
    ELSE TapWeight(lo, o, n_in, n_out) + WeightSum(lo + 1, hi, o, n_in, n_out)

\* one output sample of one line
Tap(sample, o, n_in, n_out) ==
    LET lo == FirstTap(o, n_in, n_out)
        hi == LastTap(o, n_in, n_out)
        ww == WeightSum(lo, hi, o, n_in, n_out)
    IN  (2 * WeightedSum(sample, lo, hi, o, n_in, n_out) + ww) \div (2 * ww)

\* the horizontal pass: w -> new_w
resample_rows(img, new_w) ==
    IF new_w = img.w THEN img
    ELSE MkImage(img.mode, img.transp, new_w, img.h,
            [i \in 1..(new_w * img.h) |->
                LET o == (i - 1) % new_w
                    y == (i - 1) \div new_w
                IN  [ch \in 1..4 |->
                        Tap([x \in 0..(img.w - 1) |-> PixelAt(img, x, y)[ch]],
                            o, img.w, new_w)]])

\* the vertical pass: h -> new_h
resample_columns(img, new_h) ==
    IF new_h = img.h THEN img
    ELSE MkImage(img.mode, img.transp, img.w, new_h,
            [i \in 1..(img.w * new_h) |->
                LET x == (i - 1) % img.w
                    o == (i - 1) \div img.w
                IN  [ch \in 1..4 |->
                        Tap([y \in 0..(img.h - 1) |-> PixelAt(img, x, y)[ch]],
                            o, img.h, new_h)]])

resize_bilinear(img, w, h) == resample_columns(resample_rows(img, w), h)

\* the sides both images are sampled down to, when one exceeds max_sample
compare_size(width, height) ==
    LET fit == new_size(width, height, max_sample, max_sample)
    IN  <<Max(1, fit[1]), Max(1, fit[2])>>

\* _prepare_compare_images, once both conversions to RGBA have succeeded
prepare_compare_images(original_img, png8_img) ==
    LET a == IF original_img.mode # "RGBA" THEN convert_rgba(original_img) ELSE original_img
        b0 == IF png8_img.mode # "RGBA" THEN convert_rgba(png8_img) ELSE png8_img
        b == IF <<a.w, a.h>> # <<b0.w, b0.h>> THEN resize_nearest(b0, a.w, a.h) ELSE b0
    IN  IF a.w > max_sample \/ a.h > max_sample
        THEN LET size == compare_size(a.w, a.h)
             IN  [a |-> resize_bilinear(a, size[1], size[2]),
                  b |-> resize_bilinear(b, size[1], size[2])]
        ELSE [a |-> a, b |-> b]

ChannelDiff(pa, pb, ch) == Abs(pa[ch] - pb[ch])

PixelDiff(pa, pb) ==
    ChannelDiff(pa, pb, 1) + ChannelDiff(pa, pb, 2) + ChannelDiff(pa, pb, 3)
    + ChannelDiff(pa, pb, 4)

\* the high-difference test with >= for >
IsHighDiffInclusive(pa, pb) ==
    \E ch \in 1..4 : ChannelDiff(pa, pb, ch) >= HighDiffLevel

IsHighDiff(pa, pb) ==
    \/ ChannelDiff(pa, pb, 1) > HighDiffLevel
    \/ ChannelDiff(pa, pb, 2) > HighDiffLevel
    \/ ChannelDiff(pa, pb, 3) > HighDiffLevel
    \/ ChannelDiff(pa, pb, 4) > HighDiffLevel

\* the loop of _compute_image_diff_stats over pixels lo..hi, summed by
\* halves: <<sum_abs, high_count>>
RECURSIVE DiffLoop(_, _, _, _)
DiffLoop(data_a, data_b, lo, hi) ==
    IF lo > hi THEN <<0, 0>>
    ELSE IF lo = hi
    THEN <<PixelDiff(data_a[lo], data_b[lo]),
           IF IsHighDiff(data_a[lo], data_b[lo]) THEN 1 ELSE 0>>
    ELSE LET mid == (lo + hi) \div 2
             left == DiffLoop(data_a, data_b, lo, mid)
             right == DiffLoop(data_a, data_b, mid + 1, hi)
         IN  <<left[1] + right[1], left[2] + right[2]>>

\* a float as a fraction num / den
Frac(num, den) == [num |-> num, den |-> den]

\* _compute_image_diff_stats: mae = sum_abs / (total * 4),
\* high_pct = high_count * 100 / total
compute_image_diff_stats(img_a_rgba, img_b_rgba) ==
    LET total == Min(Len(img_a_rgba.px), Len(img_b_rgba.px))
        sums == DiffLoop(img_a_rgba.px, img_b_rgba.px, 1, total)
    IN  IF total <= 0
        THEN [mae |-> Frac(0, 1), high_pct |-> Frac(0, 1)]
        ELSE [mae |-> Frac(sums[1], total * 4), high_pct |-> Frac(sums[2] * 100, total)]

\* x > limit for the float x = num / den and an integer limit: the division
\* rounds monotonically and limit is a double, so the fractions decide
FracExceeds(f, limit) == f.num > limit * f.den

\* _should_accept_png8; convert_fails: a conversion to RGBA raises for mode
\* "other"
should_accept_png8(original_img, png8_img, convert_fails) ==
    IF convert_fails /\ "other" \in {original_img.mode, png8_img.mode}
    THEN [accept |-> FALSE, mae |-> Frac(MaeSentinel, 1), high_pct |-> Frac(HighPctSentinel, 1)]
    ELSE LET pair == prepare_compare_images(original_img, png8_img)
             stats == compute_image_diff_stats(pair.a, pair.b)
         IN  [accept |-> ~FracExceeds(stats.mae, MaeLimit)
                         /\ ~FracExceeds(stats.high_pct, HighPctLimit),
              mae |-> stats.mae, high_pct |-> stats.high_pct]

(***************************************************************************)
(* The state of one call of compress.                                      *)
(*   env         the arguments, the configuration, whether the target's    *)
(*               directory exists at the call, and what the environment    *)
(*               will answer (fixed for the call)                          *)
(*   pc          the statement the call is at                              *)
(*   dir_exists  whether the target's directory exists                     *)
(*   target      the file at the target path                               *)
(*   img         the image bound by the with statement                     *)
(*   exc         the exception in flight, or the one that left the call    *)
(*   result      "none", "True", "False" or "raised"                       *)
(*   calls       the file-system and Pillow calls made so far              *)
(*   cmp         the acceptance check's arguments and verdict              *)
(***************************************************************************)
VARIABLES env, pc, dir_exists, target, img, exc, result, calls, cmp

vars == <<env, pc, dir_exists, target, img, exc, result, calls, cmp>>

photo_quality(e) ==
    clamp_int(config_get(e, "photo_quality", e.photo_quality, RawInt(DefaultQuality)),
              QualityMin, QualityMax)
max_width(e) == config_get(e, "max_photo_width", e.max_photo_width, DefaultMaxSide)
max_height(e) == config_get(e, "max_photo_height", e.max_photo_height, DefaultMaxSide)
image_preset(e) == get_image_preset(config_get(e, "image_preset", e.image_preset, "Custom"))
target_ext(e) == Lower(e.ext)

Raise(name) ==
    /\ pc' = "except"
    /\ exc' = name

\* ValidateSource without the os.path.isfile test
ValidateSourceNoFileTest ==
    /\ pc = "validate_source"
    /\ IF normalize_path(env.source_path) = None
       THEN Raise("FileNotFoundError")
       ELSE pc' = "validate_target" /\ exc' = exc
    /\ UNCHANGED <<env, dir_exists, target, img, result, calls, cmp>>

\* lines 38-40
ValidateSource ==
    /\ pc = "validate_source"
    /\ IF normalize_path(env.source_path) = None \/ env.src_kind = "missing"
       THEN Raise("FileNotFoundError")
       ELSE pc' = "validate_target" /\ exc' = exc
    /\ UNCHANGED <<env, dir_exists, target, img, result, calls, cmp>>

\* lines 42-44
ValidateTarget ==
    /\ pc = "validate_target"
    /\ IF normalize_path(env.target_dir) = None
       THEN Raise("ValueError")
       ELSE pc' = "makedirs" /\ exc' = exc
    /\ UNCHANGED <<env, dir_exists, target, img, result, calls, cmp>>

\* lines 47-48: os.makedirs(target_dir, exist_ok=True)
MakeDirs ==
    /\ pc = "makedirs"
    /\ calls' = Append(calls, Call("makedirs", 0, 0, ""))
    /\ IF ~dir_exists /\ env.mkdir_fails
       THEN Raise("PermissionError") /\ dir_exists' = dir_exists
       ELSE pc' = "open" /\ exc' = exc /\ dir_exists' = TRUE
    /\ UNCHANGED <<env, target, img, result, cmp>>

\* lines 50-56: the configuration is read and the source opened
OpenImage ==
    /\ pc = "open"
    /\ calls' = Append(calls, Call("open", 0, 0, ""))
    /\ IF env.src_kind = "corrupt"
       THEN Raise("UnidentifiedImageError") /\ img' = img
       ELSE IF env.src_kind = "bomb"
       THEN Raise("DecompressionBombError") /\ img' = img
       ELSE pc' = "resize" /\ exc' = exc /\ img' = env.src_image
    /\ UNCHANGED <<env, dir_exists, target, result, cmp>>

\* line 58.  A truncated file fails when its pixels are first loaded; Pillow
\* refuses a size with a zero side.
Resize ==
    /\ pc = "resize"
    /\ LET r == resize_if_needed(img, max_width(env), max_height(env))
       IN  IF r.calls # << >> /\ env.src_kind = "truncated"
           THEN Raise("OSError") /\ UNCHANGED <<img, calls>>
           ELSE IF r.calls # << >> /\ (r.calls[1].a <= 0 \/ r.calls[1].b <= 0)
           THEN Raise("ValueError") /\ img' = img /\ calls' = calls \o r.calls
           ELSE pc' = "save" /\ exc' = exc /\ img' = r.img /\ calls' = calls \o r.calls
    /\ UNCHANGED <<env, dir_exists, target, result, cmp>>

\* lines 59-61: _save_image, then return True
SaveImage ==
    /\ pc = "save"
    /\ LET s == save_image(img, target_ext(env), photo_quality(env), image_preset(env), env)
       IN  IF env.src_kind = "truncated"
           THEN Raise("OSError") /\ UNCHANGED <<target, result, calls>>
           ELSE IF s.raises # "none"
           THEN Raise(s.raises) /\ calls' = calls \o s.calls /\ UNCHANGED <<target, result>>
           ELSE IF env.encode_fails
           THEN /\ Raise("OSError")
                /\ target' = Partial
                /\ calls' = calls \o s.calls
                /\ result' = result
           ELSE /\ pc' = "done"
                /\ exc' = exc
                /\ target' = s.file
                /\ calls' = Append(calls \o s.calls, Call("save", s.file.quality, s.file.level, s.file.enc))
                /\ result' = "True"
    /\ UNCHANGED <<env, dir_exists, img, cmp>>

\* shutil.copy2(source_path, target_path): the exception it raises, or "none"
copy_error(e, dir_there) ==
    IF e.src_kind = "missing" THEN "FileNotFoundError"
    ELSE IF ~dir_there THEN "FileNotFoundError"
    ELSE IF e.copy_fails THEN "PermissionError"
    ELSE "none"

\* FallbackCopy that returns False without copying
FallbackWithoutCopy ==
    /\ pc = "except"
    /\ pc' = "done"
    /\ result' = "False"
    /\ UNCHANGED <<env, dir_exists, target, img, exc, calls, cmp>>

\* lines 63-88: the three handlers log, copy the source over the target and
\* return False; a failing copy is re-raised
FallbackCopy ==
    /\ pc = "except"
    /\ pc' = "done"
    /\ calls' = Append(calls, Call("copy2", 0, 0, exc))
    /\ LET err == copy_error(env, dir_exists)
       IN  IF err = "none"
           THEN target' = SourceFile(env) /\ result' = "False" /\ exc' = exc
           ELSE target' = target /\ result' = "raised" /\ exc' = err
    /\ UNCHANGED <<env, dir_exists, img, cmp>>

\* _should_accept_png8(original_img, png8_img), which no path of compress calls
ShouldAcceptPng8 ==
    /\ ~cmp.returned
    /\ cmp' = [cmp EXCEPT !.verdict = should_accept_png8(cmp.original_img, cmp.png8_img,
                                                         cmp.convert_fails),
                          !.returned = TRUE]
    /\ UNCHANGED <<env, pc, dir_exists, target, img, exc, result, calls>>

Next ==
    \/ ValidateSource
    \/ ValidateTarget
    \/ MakeDirs
    \/ OpenImage
    \/ Resize
    \/ SaveImage
    \/ FallbackCopy

(***************************************************************************)
(* Scenarios.  Each specification starts the call from its own family of   *)
(* arguments, files and environment answers.                               *)
(***************************************************************************)
AllKeys == {"photo_quality", "max_photo_width", "max_photo_height", "image_preset"}

OnePixel == Uniform("RGB", 1, 1, <<10, 20, 30, Opaque>>)

DefaultEnv ==
    [source_path |-> PathPlain, src_kind |-> "image", src_image |-> OnePixel,
     target_dir |-> PathPlain, dir_exists |-> TRUE, ext |-> ".png",
     cfg_keys |-> AllKeys, photo_quality |-> RawInt(DefaultQuality), image_preset |-> "Custom",
     max_photo_width |-> DefaultMaxSide, max_photo_height |-> DefaultMaxSide,
     mkdir_fails |-> FALSE, encode_fails |-> FALSE, copy_fails |-> FALSE,
     convert_fails |-> FALSE, extrema_fails |-> FALSE,
     quant_outcome |-> "adaptive", quant_step |-> 1]

NoVerdict == [accept |-> FALSE, mae |-> Frac(0, 1), high_pct |-> Frac(0, 1)]
IdleCmp ==
    [original_img |-> NoImage, png8_img |-> NoImage, convert_fails |-> FALSE,
     verdict |-> NoVerdict, returned |-> TRUE]

Start(e) ==
    /\ env = e
    /\ pc = "validate_source"
    /\ dir_exists = e.dir_exists
    /\ target = Absent
    /\ img = NoImage
    /\ exc = "none"
    /\ result = "none"
    /\ calls = << >>
    /\ cmp = IdleCmp

SrcKinds == {"missing", "corrupt", "bomb", "truncated", "image"}
Decodable == {"truncated", "image"}

\* paths, files and failures
Init ==
    \E k \in SrcKinds, sp \in {PathPlain, PathDotDot},
       td \in {PathPlain, PathRelative, PathEmpty, PathDotDot, PathUnc, PathUnresolvable},
       x \in {".jpg", ".png", ".xyz"}, there \in BOOLEAN,
       mf \in BOOLEAN, ef \in BOOLEAN, cf \in BOOLEAN :
        /\ (td = PathEmpty => there)
        /\ Start([DefaultEnv EXCEPT !.src_kind = k,
                                    !.src_image = IF k \in Decodable THEN OnePixel ELSE NoImage,
                                    !.source_path = sp, !.target_dir = td, !.ext = x,
                                    !.dir_exists = there,
                                    !.mkdir_fails = mf, !.encode_fails = ef, !.copy_fails = cf])

Spec == Init /\ [][Next]_vars

\* image sizes against configured maxima
InitResize ==
    \E w \in 1..MaxWidth, h \in 1..MaxHeight, mw \in 1..MaxLimit, mh \in 1..MaxLimit :
        Start([DefaultEnv EXCEPT !.src_image = Uniform("RGB", w, h, <<10, 20, 30, Opaque>>),
                                 !.image_preset = "ClarityFirst",
                                 !.max_photo_width = mw, !.max_photo_height = mh])

SpecResize == InitResize /\ [][Next]_vars

RawQualities == {RawInt(n) : n \in (QualityMin - 1)..(QualityMax + 1)} \cup {RawJunk}

\* quality, preset and target extension
InitEncode ==
    \E q \in RawQualities, p \in Presets \cup {"Other"},
       x \in {".jpg", ".jpeg", ".JPG", ".png", ".webp", ".gif", ".xyz"},
       keys \in {AllKeys, {}}, qo \in {"adaptive", "fail"},
       image \in {OnePixel, Uniform("RGBA", 1, 1, <<10, 20, 30, 128>>),
                  Uniform("P", 1, 1, <<10, 20, 30, Opaque>>)} :
        /\ (keys = {} => (q = RawInt(DefaultQuality) /\ p = "Custom"))
        /\ Start([DefaultEnv EXCEPT !.src_image = image, !.ext = x, !.cfg_keys = keys,
                                    !.photo_quality = q, !.image_preset = p,
                                    !.quant_outcome = qo])

SpecEncode == InitEncode /\ [][Next]_vars

Greys == {0, 100, 255}
Colours == {<<0, 0, 0>>, <<100, 150, 200>>, <<255, 255, 255>>}
Alphas == {0, 128, Opaque}
Px(c, a) == <<c[1], c[2], c[3], a>>
GreyPx == {Px(<<g, g, g>>, Opaque) : g \in Greys}
GreyAlphaPx == {Px(<<g, g, g>>, a) : g \in Greys, a \in Alphas}
ColourPx == {Px(c, Opaque) : c \in Colours}
ColourAlphaPx == {Px(c, a) : c \in Colours, a \in Alphas}

TwoPixels(mode, transp, pixels) ==
    {MkImage(mode, transp, 2, 1, <<p1, p2>>) : p1 \in pixels, p2 \in pixels}

PixelImages ==
    TwoPixels("RGB", FALSE, ColourPx) \cup TwoPixels("RGBA", FALSE, ColourAlphaPx)
    \cup TwoPixels("L", FALSE, GreyPx) \cup TwoPixels("L", TRUE, GreyAlphaPx)
    \cup TwoPixels("LA", FALSE, GreyAlphaPx)
    \cup TwoPixels("P", FALSE, ColourPx) \cup TwoPixels("P", TRUE, ColourAlphaPx)
    \cup TwoPixels("other", FALSE, GreyPx)

QuantSteps == {1, 64}

\* pixel modes and values through the PNG and JPEG paths
InitPixels ==
    \E image \in PixelImages, cvf \in BOOLEAN :
        /\ (cvf => image.mode = "other")
        /\ \/ \E xf \in BOOLEAN :
                Start([DefaultEnv EXCEPT !.src_image = image, !.convert_fails = cvf,
                                         !.image_preset = "CompressionFirst",
                                         !.extrema_fails = xf])
           \/ \E qo \in {"adaptive", "fallback", "fail"}, qs \in QuantSteps :
                Start([DefaultEnv EXCEPT !.src_image = image, !.convert_fails = cvf,
                                         !.photo_quality = RawInt(50),
                                         !.quant_outcome = qo, !.quant_step = qs])
           \/ Start([DefaultEnv EXCEPT !.src_image = image, !.convert_fails = cvf,
                                       !.ext = ".jpg"])

SpecPixels == InitPixels /\ [][Next]_vars
\* pairs of images for the acceptance check
MidGrey == <<100, 100, 100, Opaque>>
Deltas == {0, 20, 24, 25}
Shifted(p, d) == <<p[1] + d[1], p[2] + d[2], p[3] + d[3], p[4] - d[4]>>
Pair(a, b) == [original_img |-> a, png8_img |-> b]

\* two pixels, every channel of the first and one of the second moved
SmallPairs ==
    {Pair(MkImage("RGBA", FALSE, 2, 1, <<MidGrey, MidGrey>>),
          MkImage("RGBA", FALSE, 2, 1,
                  <<Shifted(MidGrey, <<d1, d2, d3, d4>>), Shifted(MidGrey, <<e, 0, 0, 0>>)>>)) :
        d1 \in Deltas, d2 \in Deltas, d3 \in Deltas, d4 \in Deltas, e \in Deltas}

\* a line of one colour against the same line with the pixels in spikes moved by d
Spiked(w, h, spikes, d) ==
    MkImage("RGBA", FALSE, w, h,
            [i \in 1..(w * h) |-> IF i \in spikes THEN Shifted(MidGrey, <<d, 0, 0, 0>>)
                                  ELSE MidGrey])

\* lines around fifty pixels: one differing pixel in fifty is exactly 2 percent
RowPairs ==
    {Pair(Uniform("RGBA", n, 1, MidGrey), Spiked(n, 1, 1..k, 25)) :
        n \in 49..51, k \in 0..2}

SpikeSets == {{}, {129}, {100, 105, 110, 115, 120, 125}, {1, 2, 3, 4, 5, 6}}

\* lines longer than max_sample, lying and standing
WidePairs ==
    {Pair(Uniform("RGBA", n, 1, MidGrey), Spiked(n, 1, sp, d)) :
        n \in (max_sample + 1)..MaxCompareWidth, sp \in SpikeSets, d \in {30, 200}}
    \cup
    {Pair(Uniform("RGBA", 1, n, MidGrey), Spiked(1, n, sp, d)) :
        n \in (max_sample + 1)..MaxCompareWidth, sp \in SpikeSets, d \in {30, 200}}

\* other modes against their palette images, and a palette image of another size
ModePairs ==
    {Pair(a, quantize(convert_rgba(a), qs)) :
        a \in TwoPixels("L", FALSE, GreyPx) \cup TwoPixels("other", FALSE, GreyPx)
              \cup TwoPixels("RGB", FALSE, ColourPx),
        qs \in QuantSteps}
    \cup
    {Pair(a, MkImage("P", FALSE, 1, 1, <<a.px[2]>>)) : a \in TwoPixels("RGBA", FALSE, ColourAlphaPx)}

InitAccept ==
    /\ env = DefaultEnv
    /\ pc = "idle"
    /\ dir_exists = TRUE
    /\ target = Absent
    /\ img = NoImage
    /\ exc = "none"
    /\ result = "none"
    /\ calls = << >>
    /\ \E pair \in SmallPairs \cup RowPairs \cup WidePairs \cup ModePairs, cvf \in BOOLEAN :
        /\ (cvf => "other" \in {pair.original_img.mode, pair.png8_img.mode})
        /\ cmp = [original_img |-> pair.original_img, png8_img |-> pair.png8_img,
                  convert_fails |-> cvf, verdict |-> NoVerdict, returned |-> FALSE]

NextAccept == ShouldAcceptPng8

SpecAccept == InitAccept /\ [][NextAccept]_vars

(***************************************************************************)
(* The claims.                                                             *)
(***************************************************************************)
Encoders == {"JPEG", "PNG", "WEBP", "GIF"}
Returned == pc = "done"
HasCall(op) == \E i \in 1..Len(calls) : calls[i].op = op

\* C1: when a step of the call fails and the fallback copy succeeds, the call
\* does not raise, returns False and leaves the target a byte-identical copy
\* of the source; it returns True only when the encode completed.
C1_FallbackCopyReturnsFalse ==
    Returned =>
        /\ (exc # "none" /\ copy_error(env, dir_exists) = "none")
              => (result = "False" /\ target = SourceFile(env))
        /\ result = "True"
              => /\ exc = "none"
                 /\ target.enc \in Encoders
                 /\ calls[Len(calls)].op = "save"

\* a corrupt source ends as a copy of itself at the target, and False
C1_Witness ==
    /\ Returned
    /\ env.src_kind = "corrupt"
    /\ exc = "UnidentifiedImageError"
    /\ result = "False"
    /\ target = SourceFile(env)

\* C2: with no file at the source path the call raises a file-not-found
\* error, creates no target file and does not create the target directory.
C2_MissingSourceRaises ==
    env.src_kind = "missing" =>
        /\ target = Absent
        /\ dir_exists = env.dir_exists
        /\ ~HasCall("makedirs")
        /\ Returned => (result = "raised" /\ exc = "FileNotFoundError")

\* both paths are acceptable and the directory is absent: only the order of
\* the steps keeps it from being created
C2_Witness ==
    /\ Returned
    /\ env.src_kind = "missing"
    /\ normalize_path(env.source_path) # None
    /\ normalize_path(env.target_dir) # None
    /\ ~env.dir_exists
    /\ result = "raised"

\* the resize _resize_if_needed asked Pillow for
ResizeCall == calls[CHOOSE i \in 1..Len(calls) : calls[i].op = "resize"]

\* floor(x * ratio) for ratio = min(max_width / width, max_height / height),
\* in real arithmetic
FloorOfRatio(x, width, height, max_w, max_h) ==
    IF max_w * height <= max_h * width
    THEN (x * max_w) \div width
    ELSE (x * max_h) \div height

\* C3: for an oversized image the new sides are floor(width * ratio) and
\* floor(height * ratio) with ratio = min(maxWidth / width, maxHeight / height);
\* neither exceeds its maximum, and each is within one pixel of the side
\* scaled by ratio, so the aspect ratio is kept up to rounding.  (Stated of
\* the resizes that produced an image.)
C3_ResizeIsFloorOfRatio ==
    (pc = "save" /\ HasCall("resize")) =>
        LET w == env.src_image.w
            h == env.src_image.h
            mw == max_width(env)
            mh == max_height(env)
            m == IF mw * h <= mh * w THEN mw ELSE mh
            d == IF mw * h <= mh * w THEN w ELSE h
        IN  /\ ResizeCall.a = FloorOfRatio(w, w, h, mw, mh)
            /\ ResizeCall.b = FloorOfRatio(h, w, h, mw, mh)
            /\ ResizeCall.a <= mw
            /\ ResizeCall.b <= mh
            /\ Abs(d * ResizeCall.a - w * m) <= d
            /\ Abs(d * ResizeCall.b - h * m) <= d

\* C4: an image within both maxima, equality included, comes back from
\* _resize_if_needed as it went in (size, mode and pixels), and Pillow is
\* not asked to resample.
C4_FittingImageUnchanged ==
    (env.src_image.w <= max_width(env) /\ env.src_image.h <= max_height(env)) =>
        /\ ~HasCall("resize")
        /\ pc \in {"save", "done"} => img = env.src_image

\* an image exactly as large as the maxima has passed the resize step
C4_Witness ==
    /\ pc = "save"
    /\ env.src_image.w = max_width(env)
    /\ env.src_image.h = max_height(env)
    /\ img = env.src_image
    /\ ~HasCall("resize")

\* the call encoded an image into the target
Encoded(enc) == Returned /\ result = "True" /\ target.enc = enc

\* the configured quality is an integer of 0..100 and the preset one of the three
PlainConfig ==
    /\ env.cfg_keys = AllKeys
    /\ env.photo_quality.is_int
    /\ env.photo_quality.n \in 0..100
    /\ env.image_preset \in Presets

\* C5: the encoder is given min(q, cap) under CompressionFirst, max(q, floor)
\* under ClarityFirst and q under Custom, with (cap, floor) = (75, 92) for JPEG
\* targets and (70, 90) for WEBP targets.
C5_EncoderQuality ==
    (Returned /\ result = "True" /\ PlainConfig
       /\ target_ext(env) \in {".jpg", ".jpeg", ".webp"}) =>
        LET q == env.photo_quality.n
            jpeg == target_ext(env) \in {".jpg", ".jpeg"}
            cap == IF jpeg THEN 75 ELSE 70
            floor == IF jpeg THEN 92 ELSE 90
        IN  /\ target.enc = (IF jpeg THEN "JPEG" ELSE "WEBP")
            /\ env.image_preset = "CompressionFirst" => target.quality = Min(q, cap)
            /\ env.image_preset = "ClarityFirst" => target.quality = Max(q, floor)
            /\ env.image_preset = "Custom" => target.quality = q

\* WEBP under CompressionFirst with quality 72 is encoded at 70
C5_Witness ==
    /\ Encoded("WEBP")
    /\ env.image_preset = "CompressionFirst"
    /\ env.photo_quality = RawInt(72)
    /\ target.quality = 70

\* C6: the PNG path decides by preset first: ClarityFirst is level 6 with the
\* image as it is, CompressionFirst level 9 with the image flattened to RGB,
\* whatever the quality; Custom is level 6 as it is from 90, level 9 as it is
\* from 70 to 89, and level 9 with a quantization attempt below 70 (an image
\* already in palette mode is handed back before Pillow is asked).  No other
\* branch asks for a quantization.
C6_PngBranches ==
    (Encoded("PNG") /\ PlainConfig) =>
        LET q == env.photo_quality.n
            preset == env.image_preset
            asIs == target.img = img /\ ~HasCall("quantize")
        IN  /\ preset = "ClarityFirst" => (target.level = 6 /\ asIs)
            /\ preset = "CompressionFirst"
                  => /\ target.level = 9
                     /\ target.img.mode = "RGB"
                     /\ <<target.img.w, target.img.h>> = <<img.w, img.h>>
                     /\ ~HasCall("quantize")
            /\ (preset = "Custom" /\ q >= 90) => (target.level = 6 /\ asIs)
            /\ (preset = "Custom" /\ q >= 70 /\ q < 90) => (target.level = 9 /\ asIs)
            /\ (preset = "Custom" /\ q < 70)
                  => /\ target.level = 9
                     /\ img.mode # "P" => HasCall("quantize")

\* Custom at quality 69 asks for a palette and encodes it at level 9;
\* ClarityFirst at 69 does not
C6_Witness ==
    /\ Encoded("PNG")
    /\ env.image_preset = "Custom"
    /\ env.photo_quality = RawInt(69)
    /\ HasCall("quantize")
    /\ target.img.mode = "P"
    /\ target.level = 9

\* the PNG path of a Custom preset below quality 70 encoded an image
EncodedLowQualityPng ==
    /\ Encoded("PNG")
    /\ PlainConfig
    /\ env.image_preset = "Custom"
    /\ env.photo_quality.n < 70

\* the image encoded is a palette image made by quantizing img
EncodedQuantized == target.img.mode = "P" /\ img.mode # "P"

\* C7: in the Custom PNG path below quality 70 the palette image is the one
\* encoded only if the acceptance check of the image before against the image
\* after quantization accepts; on a rejection the unquantized image is encoded.
C7_QuantizedOnlyIfAccepted ==
    (EncodedLowQualityPng /\ EncodedQuantized) =>
        should_accept_png8(img, target.img, env.convert_fails).accept

\* sum of f[lo..hi], by halves
RECURSIVE SumFn(_, _, _)
SumFn(f, lo, hi) ==
    IF lo > hi THEN 0
    ELSE IF lo = hi THEN f[lo]
    ELSE SumFn(f, lo, (lo + hi) \div 2) + SumFn(f, ((lo + hi) \div 2) + 1, hi)

\* the claim's statistics of two rasters of n pixels: the sum of the absolute
\* differences of all channels, and the number of pixels with a channel that
\* differs by more than 24
ClaimSumAbs(pa, pb, n) ==
    SumFn([k \in 1..(4 * n) |->
              Abs(pa[((k - 1) \div 4) + 1][((k - 1) % 4) + 1]
                  - pb[((k - 1) \div 4) + 1][((k - 1) % 4) + 1])],
          1, 4 * n)
ClaimHighCount(pa, pb, n) ==
    Cardinality({i \in 1..n : \E ch \in 1..4 : Abs(pa[i][ch] - pb[i][ch]) > 24})

\* mae <= 6.0 and highDiffPercent <= 2.0 of the two images as given
ClaimWithinLimits(a, b) ==
    LET n == a.w * a.h
    IN  /\ ClaimSumAbs(a.px, b.px, n) <= 6 * 4 * n
        /\ 100 * ClaimHighCount(a.px, b.px, n) <= 2 * n

\* the check has answered for two RGBA images of one size
ComparedRgba ==
    /\ cmp.returned
    /\ cmp.original_img.mode = "RGBA"
    /\ cmp.png8_img.mode = "RGBA"
    /\ <<cmp.original_img.w, cmp.original_img.h>> = <<cmp.png8_img.w, cmp.png8_img.h>>

AcceptIsWithinLimits ==
    /\ cmp.verdict.accept <=> ClaimWithinLimits(cmp.original_img, cmp.png8_img)
    /\ cmp.original_img = cmp.png8_img
          => /\ cmp.verdict.mae.num = 0
             /\ cmp.verdict.high_pct.num = 0
             /\ cmp.verdict.accept

\* C8 as claimed: for any two RGBA images of one size the check accepts
\* exactly when their mean absolute error is at most 6.0 and their share of
\* high-difference pixels at most 2.0 percent; an image against itself gives
\* 0.0, 0.0 and accept.
C8_AcceptIffWithinLimits == ComparedRgba => AcceptIsWithinLimits

\* C8 as amended: the same, for images of at most max_sample pixels a side.
\* Larger images are sampled down first and the statistics are those of the
\* sampled pair.
C8_AcceptIffWithinLimitsUpTo256 ==
    (ComparedRgba /\ cmp.original_img.w <= 256 /\ cmp.original_img.h <= 256)
        => AcceptIsWithinLimits

\* one pixel in fifty differs by 25: exactly 2 percent, and accepted
C8_Witness ==
    /\ ComparedRgba
    /\ cmp.original_img.w * cmp.original_img.h = 50
    /\ ClaimHighCount(cmp.original_img.px, cmp.png8_img.px, 50) = 1
    /\ cmp.verdict.accept

HasAlphaView(image) == image.mode # "RGB" /\ (image.mode \in {"RGBA", "LA"} \/ image.transp)
AllAlpha(image, a) == \A i \in 1..Len(image.px) : image.px[i][4] = a

\* C9: the PNG-24 conversion gives an RGB image for every mode, the input
\* itself when that is RGB; with an alpha channel, uniformly 255 keeps every
\* pixel's R, G, B, anything else composites every pixel over opaque white
\* (255 * out is c * a + 255 * (255 - a) up to rounding), so alpha uniformly 0
\* gives solid white.
C9_Png24Flatten ==
    (Encoded("PNG") /\ image_preset(env) = "CompressionFirst") =>
        /\ target.img.mode = "RGB"
        /\ <<target.img.w, target.img.h>> = <<img.w, img.h>>
        /\ img.mode = "RGB" => target.img = img
        /\ HasAlphaView(img) =>
              /\ AllAlpha(img, 255)
                    => \A i \in 1..Len(img.px) : Rgb(target.img.px[i]) = Rgb(img.px[i])
              /\ AllAlpha(img, 0)
                    => \A i \in 1..Len(img.px) : Rgb(target.img.px[i]) = <<255, 255, 255>>
              /\ \A i \in 1..Len(img.px), ch \in 1..3 :
                    Abs(255 * target.img.px[i][ch]
                        - (img.px[i][ch] * img.px[i][4] + 255 * (255 - img.px[i][4]))) <= 127

\* a fully transparent RGBA image of another colour was encoded as white
C9_Witness ==
    /\ Encoded("PNG")
    /\ image_preset(env) = "CompressionFirst"
    /\ img.mode = "RGBA"
    /\ AllAlpha(img, 0)
    /\ \E i \in 1..Len(img.px) : Rgb(img.px[i]) # <<255, 255, 255>>
    /\ \A i \in 1..Len(img.px) : Rgb(target.img.px[i]) = <<255, 255, 255>>

\* C10: _maybe_quantize_png hands back its input, same image and same mode,
\* whenever it produces no palette image: for an input already in palette
\* mode, and when quantization fails, whatever the input's mode.
C10_UnquantizedIsInput ==
    (EncodedLowQualityPng /\ ~EncodedQuantized) => target.img = img

\* the palette requests the call made of Pillow
QuantizeCalls == {calls[i] : i \in {j \in 1..Len(calls) : calls[j].op = "quantize"}}

\* the integer nearest to 16 + (q / 70) * 240, which is never halfway
NearestColors(q) == CHOOSE r \in 0..300 : 2 * Abs(70 * (r - 16) - 240 * q) <= 70

\* C11: in the Custom PNG path with an integer quality q of 0..69 every
\* palette request asks for clamp(round(16 + (q / 70) * 240), 16, 256)
\* colours, a number of 16..256 that is 16 at q = 0, and asks with dithering
\* off; the palette size the code computes never falls as q rises.
C11_PaletteSize ==
    /\ (pc = "done" /\ PlainConfig /\ target_ext(env) = ".png"
           /\ env.image_preset = "Custom" /\ env.photo_quality.n < 70) =>
          \A c \in QuantizeCalls :
              /\ c.a = Max(16, Min(256, NearestColors(env.photo_quality.n)))
              /\ c.a \in 16..256
              /\ env.photo_quality.n = 0 => c.a = 16
              /\ c.b = 0
    /\ \A q \in 0..68 : png_colors(q) <= png_colors(q + 1)

\* quality 69 asked for a palette of 253 colours, once by each method
C11_Witness ==
    /\ Encoded("PNG")
    /\ PlainConfig
    /\ env.image_preset = "Custom"
    /\ env.photo_quality.n = 69
    /\ env.quant_outcome = "fail"
    /\ Cardinality(QuantizeCalls) = 2
    /\ \A c \in QuantizeCalls : c.a = 253 /\ c.b = 0
    /\ QuantizeCalls # {}

\* C12: for an oversized image with both sides at least 1 and both maxima at
\* least 1, the size _resize_if_needed asks Pillow for has both sides at
\* least 1.
C12_ResizeSidesPositive ==
    (HasCall("resize") /\ env.src_image.w >= 1 /\ env.src_image.h >= 1
       /\ max_width(env) >= 1 /\ max_height(env) >= 1) =>
        (ResizeCall.a >= 1 /\ ResizeCall.b >= 1)

\* the source is a sound image at a plain path, and nothing in the
\* environment makes the decode, the directory or the encode fail
AllStepsSucceed ==
    /\ env.src_kind = "image"
    /\ env.source_path = PathPlain
    /\ env.ext \in {".jpg", ".png"}
    /\ env.dir_exists
    /\ ~env.encode_fails

\* C13: when the source exists and decodes and the resize and encode succeed,
\* the call returns True and the target holds the re-encoded image, for every
\* writable target: one in a directory given absolutely or relatively, and a
\* bare file name, whose directory string is empty.
C13_SuccessReturnsTrue ==
    (Returned /\ AllStepsSucceed /\ env.target_dir \in {PathPlain, PathRelative, PathEmpty}) =>
        /\ result = "True"
        /\ target.enc \in Encoders
====
